---------------------------- MODULE Spec2Model ----------------------------
(***************************************************************************)
(* Model of src/main.py: the department-code normaliser, the three         *)
(* readers (water samples, health prevalence, mortality), the join of      *)
(* main and the export.                                                    *)
(*                                                                         *)
(* Representation.  A Python str is a sequence of one-character strings    *)
(* (<<"0","1">> is "01"), so that slicing, stripping, prefix tests and     *)
(* lexicographic comparison are computed and not assumed.  A dict is a     *)
(* function whose DOMAIN is the set of keys.  None is the value None.      *)
(* A float that is a ratio of integers is kept exactly as a reduced        *)
(* fraction <<n, d>> with d > 0; a value rounded to k decimals is kept as  *)
(* the integer number of 10^-k units.                                      *)
(***************************************************************************)
EXTENDS Integers, Sequences, FiniteSets, TLC

VARIABLES
    pc,            \* position of the run (see the actions)
    maxrec,        \* number of records the input files of this run may hold
    wide,          \* the files draw their records from the wide sets, not the few
    nread,         \* records fetched so far from the file being read
    row,           \* the record fetched by the reader's for loop, or NoRow
    atEnd,         \* the last fetched mortality line had no line terminator
    water_map,     \* read_water_file: dept -> sequence of samples
    water,         \* main: result of read_water_file
    stats_map,     \* read_effectifs_csv: dept -> the four accumulators
    pathos,        \* main: result of read_effectifs_csv
    death_map,     \* read_death_data: dept -> counter
    deaths,        \* main: result of read_death_data
    todo,          \* main: the codes of sorted(all_depts) not yet visited
    final_dataset, \* main: the summaries appended so far
    csv_out,       \* the table written by the export, or None
    fault,         \* per reader: "none", "open" (open raised), "read" (iteration raised)
    diag,          \* number of diagnostics printed by read_effectifs_csv
    nqual,         \* mortality lines that passed the length test so far
    code,          \* argument of normalize_dept (normaliser runs)
    ncode          \* sequence of the successive results of normalize_dept

vars == <<pc, maxrec, wide, nread, row, atEnd, water_map, water, stats_map, pathos,
          death_map, deaths, todo, final_dataset, csv_out, fault, diag, nqual,
          code, ncode>>

\* None, and the state of row between two records.  Neither is a str.
None == <<"<None>">>
NoRow == [kind |-> "none"]

(***************************************************************************)
(* Bounds of the model.                                                    *)
(***************************************************************************)
MaxLen == 3        \* longest raw code drawn for normalize_dept
MaxRows == 2       \* records per file when one reader is run
PipeRows == 2      \* records per file when the three readers run in sequence

(***************************************************************************)
(* Characters and strings.                                                 *)
(***************************************************************************)
\* The characters the model uses, in code-point order.  "e'", "E'" and "a^"
\* stand for the letters e-acute, E-acute and a-circumflex of the source's
\* patterns (code points above "z", the capital below the small ones).
CodePoints ==
    << "\n", " ", "\"", "+", "-", ".", "/",
       "0", "1", "2", "3", "4", "5", "6", "7", "8", "9",
       "A", "B", "C", "D", "E", "F", "G", "H", "I", "J", "K", "L", "M",
       "N", "O", "P", "Q", "R", "S", "T", "U", "V", "W", "X", "Y", "Z",
       "a", "b", "c", "d", "e", "f", "g", "h", "i", "j", "k", "l", "m",
       "n", "o", "p", "q", "r", "s", "t", "u", "v", "w", "x", "y", "z",
       "E'", "a^", "e'" >>

Ord(ch) == CHOOSE i \in 1..Len(CodePoints) : CodePoints[i] = ch

Digits == {"0", "1", "2", "3", "4", "5", "6", "7", "8", "9"}

\* the characters str.strip() removes, among those of the model
Whitespace == {" ", "\n"}

UpperChars ==
    << "A", "B", "C", "D", "E", "F", "G", "H", "I", "J", "K", "L", "M",
       "N", "O", "P", "Q", "R", "S", "T", "U", "V", "W", "X", "Y", "Z", "E'" >>

LowerChars ==
    << "a", "b", "c", "d", "e", "f", "g", "h", "i", "j", "k", "l", "m",
       "n", "o", "p", "q", "r", "s", "t", "u", "v", "w", "x", "y", "z", "e'" >>

\* str.lower() on one character
LowerChar(ch) ==
    IF \E i \in 1..Len(UpperChars) : UpperChars[i] = ch
    THEN LowerChars[CHOOSE i \in 1..Len(UpperChars) : UpperChars[i] = ch]
    ELSE ch

Lower(s) == [i \in 1..Len(s) |-> LowerChar(s[i])]

\* s.startswith(p)
StartsWith(s, p) == Len(s) >= Len(p) /\ SubSeq(s, 1, Len(p)) = p

\* p in s
Contains(s, p) ==
    \E i \in 1..(Len(s) - Len(p) + 1) : SubSeq(s, i, i + Len(p) - 1) = p

\* s[lo:hi], 0-based and clamped as Python slices are
Slice(s, lo, hi) == SubSeq(s, lo + 1, IF hi < Len(s) THEN hi ELSE Len(s))

RECURSIVE LStrip(_)
LStrip(s) ==
    IF s # <<>> /\ Head(s) \in Whitespace THEN LStrip(Tail(s)) ELSE s

RECURSIVE RStrip(_)
RStrip(s) ==
    IF s # <<>> /\ s[Len(s)] \in Whitespace
    THEN RStrip(SubSeq(s, 1, Len(s) - 1)) ELSE s

\* s.strip()
Strip(s) == RStrip(LStrip(s))

\* s.replace('"', '')
RECURSIVE RemoveQuotes(_)
RemoveQuotes(s) ==
    IF s = <<>> THEN <<>>
    ELSE IF Head(s) = "\"" THEN RemoveQuotes(Tail(s))
    ELSE <<Head(s)>> \o RemoveQuotes(Tail(s))

\* a < b for str: lexicographic by code point
RECURSIVE StrLess(_, _)
StrLess(a, b) ==
    IF b = <<>> THEN FALSE
    ELSE IF a = <<>> THEN TRUE
    ELSE IF Head(a) = Head(b) THEN StrLess(Tail(a), Tail(b))
    ELSE Ord(Head(a)) < Ord(Head(b))

INCONNU == <<"I", "N", "C", "O", "N", "N", "U">>

\* str(x): the text of a field; a missing field (None) prints as "None"
Str(x) == IF x = None THEN <<"N", "o", "n", "e">> ELSE x

(***************************************************************************)
(* normalize_dept                                                          *)
(***************************************************************************)
normalize_dept(c0) ==
    LET c == RemoveQuotes(Strip(Str(c0))) IN
    IF c = <<>> \/ Lower(c) = <<"t", "o", "t", "a", "l">> THEN INCONNU
    ELSE IF c = <<"9", "9">> \/ c = <<"9", "9", "9">> THEN <<"9", "9", "9">>
    ELSE IF Len(c) = 3 /\ Head(c) = "0" THEN Tail(c)
    ELSE IF Len(c) = 1 /\ c[1] \in Digits THEN <<"0">> \o c
    ELSE c

(***************************************************************************)
(* Exact arithmetic on the ratios the code computes in floating point.     *)
(***************************************************************************)
Abs(n) == IF n < 0 THEN -n ELSE n

RECURSIVE GCD(_, _)
GCD(a, b) == IF b = 0 THEN a ELSE GCD(b, a % b)

\* the fraction n/d (d > 0) in lowest terms
Frac(n, d) == LET g == GCD(Abs(n), d) IN <<n \div g, d \div g>>

FracAdd(x, y) == Frac(x[1] * y[2] + y[1] * x[2], x[2] * y[2])

RECURSIVE FracSum(_)
FracSum(v) == IF v = <<>> THEN <<0, 1>> ELSE FracAdd(Head(v), FracSum(Tail(v)))

\* round(n/d) to the nearest integer, a tie going to the even one (d > 0)
RoundDiv(n, d) ==
    LET q == n \div d
        r == n % d
    IN  IF 2 * r < d THEN q
        ELSE IF 2 * r > d THEN q + 1
        ELSE IF q % 2 = 0 THEN q ELSE q + 1

EmptyMap == <<>>

(***************************************************************************)
(* read_water_file                                                         *)
(***************************************************************************)
FlagC == <<"C">>
FlagN == <<"N">>
FlagS == <<"S">>

\* The rows csv.DictReader may yield: a department field and the four
\* compliance flags, None where the line is too short to hold the column.
WaterDepts == { <<"1">>, <<"0", "0", "1">>, <<"9", "7", "1">> }
WaterFlags == { FlagC, FlagN, FlagS, None }
WaterRows ==
    [ kind : {"water"},
      cddept : WaterDepts,
      plvconformitebacterio : WaterFlags,
      plvconformitechimique : WaterFlags,
      plvconformitereferencebact : WaterFlags,
      plvconformitereferencechim : WaterFlags ]

\* a few of them: one considered flag, or none
WaterRowsFew ==
    [ kind : {"water"},
      cddept : { <<"1">>, <<"9", "7", "1">> },
      plvconformitebacterio : { FlagC, FlagN },
      plvconformitechimique : { FlagS },
      plvconformitereferencebact : { None },
      plvconformitereferencechim : { FlagS } ]
    \cup
    [ kind : {"water"},
      cddept : { <<"1">> },
      plvconformitebacterio : { FlagS },
      plvconformitechimique : { FlagS },
      plvconformitereferencebact : { None },
      plvconformitereferencechim : { None } ]

WaterInput == IF wide THEN WaterRows ELSE WaterRowsFew

\* cols, line 39
WaterCols(r) ==
    << r.plvconformitebacterio, r.plvconformitechimique,
       r.plvconformitereferencebact, r.plvconformitereferencechim >>

\* the filter of line 46 without its "is not None" test
ValidCols_keepNone(cols) == SelectSeq(cols, LAMBDA c : c # FlagS)

\* [c for c in cols if c != 'S' and c is not None]
ValidCols(cols) == SelectSeq(cols, LAMBDA c : c # FlagS /\ c # None)

\* valid_cols.count('C')
CountC(v) == Len(SelectSeq(v, LAMBDA c : c = FlagC))

\* (valid_cols.count('C') / len(valid_cols)) * 100
WaterVal(v) == Frac(CountC(v) * 100, Len(v))

\* water_map[dept].append(val) on a defaultdict(list)
AppendSample(m, d, val) ==
    IF d \in DOMAIN m THEN [m EXCEPT ![d] = Append(@, val)]
    ELSE (d :> <<val>>) @@ m

\* the body of the for loop, lines 38-49
WaterRowEffect(m, r) ==
    LET dept == normalize_dept(r.cddept)
        valid_cols == ValidCols(WaterCols(r))
    IN  IF valid_cols = <<>> THEN m
        ELSE AppendSample(m, dept, WaterVal(valid_cols))

\* {d: sum(v)/len(v) for d, v in water_map.items()}
WaterMeans(m) ==
    [d \in DOMAIN m |->
        LET t == FracSum(m[d]) IN Frac(t[1], t[2] * Len(m[d]))]

\* after read_water_file returns, main calls read_effectifs_csv
AfterWater == "pathos_open"

\* open() succeeds
WaterOpen ==
    /\ pc = "water_open"
    /\ pc' = "water_rows"
    /\ UNCHANGED <<maxrec, wide, nread, row, atEnd, water_map, water, stats_map,
                   pathos, death_map, deaths, todo, final_dataset, csv_out,
                   fault, diag, nqual, code, ncode>>

\* open() raises: except: pass, then the return statement
WaterOpenFail ==
    /\ pc = "water_open"
    /\ fault' = [fault EXCEPT !.water = "open"]
    /\ water' = WaterMeans(water_map)
    /\ pc' = AfterWater
    /\ UNCHANGED <<maxrec, wide, nread, row, atEnd, water_map, stats_map, pathos,
                   death_map, deaths, todo, final_dataset, csv_out, diag,
                   nqual, code, ncode>>

\* the for loop obtains the next row from the reader
WaterFetch ==
    /\ pc = "water_rows" /\ row = NoRow /\ nread < maxrec
    /\ \E r \in WaterInput : row' = r
    /\ nread' = nread + 1
    /\ UNCHANGED <<pc, maxrec, wide, atEnd, water_map, water, stats_map, pathos,
                   death_map, deaths, todo, final_dataset, csv_out, fault,
                   diag, nqual, code, ncode>>

\* the body of the loop on the fetched row
WaterBody ==
    /\ pc = "water_rows" /\ row # NoRow
    /\ water_map' = WaterRowEffect(water_map, row)
    /\ row' = NoRow
    /\ UNCHANGED <<pc, maxrec, wide, nread, atEnd, water, stats_map, pathos,
                   death_map, deaths, todo, final_dataset, csv_out, fault,
                   diag, nqual, code, ncode>>

\* the same failure with no except clause around the loop
WaterReadFail_raises ==
    /\ pc = "water_rows" /\ row = NoRow
    /\ pc' = "crashed"
    /\ UNCHANGED <<maxrec, wide, nread, row, atEnd, water_map, water, stats_map,
                   pathos, death_map, deaths, todo, final_dataset, csv_out,
                   fault, diag, nqual, code, ncode>>

\* the reader raises while fetching (decoding or csv error): except: pass
WaterReadFail ==
    /\ pc = "water_rows" /\ row = NoRow
    /\ fault' = [fault EXCEPT !.water = "read"]
    /\ water' = WaterMeans(water_map)
    /\ pc' = AfterWater
    /\ nread' = 0
    /\ UNCHANGED <<maxrec, wide, row, atEnd, water_map, stats_map, pathos,
                   death_map, deaths, todo, final_dataset, csv_out, diag,
                   nqual, code, ncode>>

\* end of file: the loop ends and the function returns
WaterEOF ==
    /\ pc = "water_rows" /\ row = NoRow
    /\ water' = WaterMeans(water_map)
    /\ pc' = AfterWater
    /\ nread' = 0
    /\ UNCHANGED <<maxrec, wide, row, atEnd, water_map, stats_map, pathos,
                   death_map, deaths, todo, final_dataset, csv_out, fault,
                   diag, nqual, code, ncode>>

NoFault == [water |-> "none", pathos |-> "none", deaths |-> "none"]

\* the state of main at position p with no record read yet, the faults f
\* behind it, the files holding at most n records each, drawn from the wide
\* sets when w
Start(p, n, f, w) ==
    /\ pc = p
    /\ maxrec = n
    /\ wide = w
    /\ nread = 0
    /\ row = NoRow
    /\ atEnd = FALSE
    /\ water_map = EmptyMap
    /\ water = EmptyMap
    /\ stats_map = EmptyMap
    /\ pathos = EmptyMap
    /\ death_map = EmptyMap
    /\ deaths = EmptyMap
    /\ todo = <<>>
    /\ final_dataset = <<>>
    /\ csv_out = None
    /\ fault = f
    /\ diag = 0
    /\ nqual = 0
    /\ code = None
    /\ ncode = <<>>

(***************************************************************************)
(* read_effectifs_csv                                                      *)
(***************************************************************************)
Pat2023 == <<"2", "0", "2", "3">>
PatTousSexes == <<"t", "o", "u", "s", " ", "s", "e", "x", "e", "s">>
PatTousAges == <<"t", "o", "u", "s", " ", "a^", "g", "e", "s">>
PatTousDepts ==
    << "t", "o", "u", "s", " ", "d", "e'", "p", "a", "r", "t", "e", "m", "e",
       "n", "t", "s" >>
PatPop ==
    << "T", "o", "t", "a", "l", " ", "c", "o", "n", "s", "o", "m", "m", "a",
       "n", "t", "s", " ", "t", "o", "u", "s", " ", "r", "e'", "g", "i", "m",
       "e", "s" >>
PatCancer == <<"C", "a", "n", "c", "e", "r", "s">>
PatRein ==
    << "I", "n", "s", "u", "f", "f", "i", "s", "a", "n", "c", "e", " ", "r",
       "e'", "n", "a", "l", "e", " ", "c", "h", "r", "o", "n", "i", "q", "u",
       "e", " ", "t", "e", "r", "m", "i", "n", "a", "l", "e" >>
PatFoie ==
    << "M", "a", "l", "a", "d", "i", "e", "s", " ", "d", "u", " ", "f", "o",
       "i", "e", " ", "o", "u", " ", "d", "u", " ", "p", "a", "n", "c", "r",
       "e'", "a", "s" >>

\* the value of a decimal numeral
RECURSIVE DecVal(_)
DecVal(s) ==
    IF s = <<>> THEN 0
    ELSE 10 * DecVal(SubSeq(s, 1, Len(s) - 1)) + (Ord(s[Len(s)]) - Ord("0"))

IsDigits(s) == \A i \in 1..Len(s) : s[i] \in Digits

\* float(x) followed by int(): x is stripped, then an optional sign, digits
\* and an optional fraction are read; int() drops the fraction (towards
\* zero).  ok is FALSE where float() raises: None (TypeError) and every
\* other text of the model (ValueError).
IntOfFloat(x) ==
    IF x = None THEN [ok |-> FALSE, val |-> 0]
    ELSE
      LET t == Strip(x)
          signed == t # <<>> /\ Head(t) \in {"+", "-"}
          neg == t # <<>> /\ Head(t) = "-"
          u == IF signed THEN Tail(t) ELSE t
          dots == {i \in 1..Len(u) : u[i] = "."}
          dot == IF dots = {} THEN Len(u) + 1 ELSE CHOOSE i \in dots : TRUE
          ip == SubSeq(u, 1, dot - 1)
          fp == SubSeq(u, dot + 1, Len(u))
          ok == /\ Cardinality(dots) <= 1
                /\ IsDigits(ip) /\ IsDigits(fp)
                /\ Len(ip) + Len(fp) > 0
      IN  IF ok THEN [ok |-> TRUE, val |-> IF neg THEN -DecVal(ip) ELSE DecVal(ip)]
          ELSE [ok |-> FALSE, val |-> 0]

\* try: count = int(float(row.get('Ntop', 0))) / except: count = 0
ParseCount(x) == LET p == IntOfFloat(x) IN IF p.ok THEN p.val ELSE 0

\* the four filters, lines 62-71: TRUE when the row is kept
PassesFilters(r) ==
    /\ Contains(Str(r.annee), Pat2023)
    /\ Contains(Lower(Str(r.libelle_sexe)), PatTousSexes)
    /\ Contains(Lower(Str(r.libelle_classe_age)), PatTousAges)
    /\ ~Contains(Lower(Str(r.dept)), PatTousDepts)

\* the chain of lines 81-88 with its first two tests exchanged
Bucket_cancerFirst(p2) ==
    IF Contains(p2, PatCancer) THEN "cancer"
    ELSE IF Contains(p2, PatPop) THEN "pop"
    ELSE IF Contains(p2, PatRein) THEN "rein"
    ELSE IF Contains(p2, PatFoie) THEN "foie"
    ELSE "none"

\* the if/elif chain, lines 81-88: the accumulator the row goes to
Bucket(p2) ==
    IF Contains(p2, PatPop) THEN "pop"
    ELSE IF Contains(p2, PatCancer) THEN "cancer"
    ELSE IF Contains(p2, PatRein) THEN "rein"
    ELSE IF Contains(p2, PatFoie) THEN "foie"
    ELSE "none"

\* the default factory of stats_map, line 55
ZeroStats == [pop |-> 0, cancer |-> 0, rein |-> 0, foie |-> 0]

\* stats_map[dept][k] += count on the defaultdict
AddCount(m, d, k, count) ==
    LET cur == IF d \in DOMAIN m THEN m[d] ELSE ZeroStats
    IN  (d :> [cur EXCEPT ![k] = @ + count]) @@ m

\* the body of the for loop, lines 62-88
HealthRowEffect(m, r) ==
    IF ~PassesFilters(r) THEN m
    ELSE
      LET dept == normalize_dept(Str(r.dept))
          p2 == Str(r.patho_niv1)
          count == ParseCount(r.Ntop)
          k == Bucket(p2)
      IN  IF k = "none" THEN m ELSE AddCount(m, dept, k, count)

\* The rows csv.DictReader may yield.  The texts are those of the data set
\* and texts chosen to reach every branch.  A row either passes the four
\* filters, or fails one of them, or is a short line whose other fields
\* are None.  The rows whose category holds two patterns carry a count of
\* their own.
TxtSexes == <<"T", "o", "u", "s", " ", "s", "e", "x", "e", "s">>
TxtHommes == <<"H", "o", "m", "m", "e", "s">>
TxtAges == <<"T", "o", "u", "s", " ", "a^", "g", "e", "s">>
TxtJeunes == <<"2", "0", " ", "a", "n", "s">>
TxtTousDepts ==
    << "T", "o", "u", "s", " ", "d", "e'", "p", "a", "r", "t", "e", "m", "e",
       "n", "t", "s" >>
Txt2022 == <<"2", "0", "2", "2">>
TxtDiabete == <<"D", "i", "a", "b", "e", "t", "e">>

HealthDepts == { <<"1">>, <<"9", "7", "1">> }
HealthPathos == { PatPop, PatCancer, PatRein, PatFoie, TxtDiabete, None }
HealthMixed ==
    { PatCancer \o <<" ", "/", " ">> \o PatPop,
      PatFoie \o <<" ", "/", " ">> \o PatRein }
HealthCounts ==
    { <<"2">>, <<"1", ".", "7">>, <<"-", "1">>, <<"a", "b", "c">>, None }

HealthRow(a, s, g, d, p, n) ==
    [ kind |-> "health", annee |-> a, libelle_sexe |-> s,
      libelle_classe_age |-> g, dept |-> d, patho_niv1 |-> p, Ntop |-> n ]

HealthRows ==
    { HealthRow(Pat2023, TxtSexes, TxtAges, d, p, n) :
        d \in HealthDepts, p \in HealthPathos, n \in HealthCounts }
    \cup { HealthRow(Pat2023, TxtSexes, TxtAges, d, p, <<"7">>) :
             d \in HealthDepts, p \in HealthMixed }
    \cup { HealthRow(Txt2022, TxtSexes, TxtAges, <<"1">>, p, <<"2">>) :
             p \in {PatPop, PatCancer} }
    \cup { HealthRow(Pat2023, TxtHommes, TxtAges, <<"1">>, p, <<"2">>) :
             p \in {PatPop, PatCancer} }
    \cup { HealthRow(Pat2023, TxtSexes, TxtJeunes, <<"1">>, p, <<"2">>) :
             p \in {PatPop, PatCancer} }
    \cup { HealthRow(Pat2023, TxtSexes, TxtAges, TxtTousDepts, p, <<"2">>) :
             p \in {PatPop, PatCancer} }
    \cup { HealthRow(None, None, None, None, PatPop, <<"2">>) }

\* a few of them
HealthRowsFew ==
    { HealthRow(Pat2023, TxtSexes, TxtAges, d, p, <<"2">>) :
        d \in HealthDepts, p \in {PatPop, PatCancer} }
    \cup { HealthRow(Txt2022, TxtSexes, TxtAges, <<"1">>, PatPop, <<"2">>) }

HealthInput == IF wide THEN HealthRows ELSE HealthRowsFew

\* after read_effectifs_csv returns, main calls read_death_data
AfterHealth == "deaths_open"

\* open() succeeds
HealthOpen ==
    /\ pc = "pathos_open"
    /\ pc' = "pathos_rows"
    /\ UNCHANGED <<maxrec, wide, nread, row, atEnd, water_map, water, stats_map,
                   pathos, death_map, deaths, todo, final_dataset, csv_out,
                   fault, diag, nqual, code, ncode>>

\* open() raises: the except clause prints the diagnostic, then return
HealthOpenFail ==
    /\ pc = "pathos_open"
    /\ fault' = [fault EXCEPT !.pathos = "open"]
    /\ diag' = diag + 1
    /\ pathos' = stats_map
    /\ pc' = AfterHealth
    /\ UNCHANGED <<maxrec, wide, nread, row, atEnd, water_map, water, stats_map,
                   death_map, deaths, todo, final_dataset, csv_out, nqual,
                   code, ncode>>

\* the for loop obtains the next row from the reader
HealthFetch ==
    /\ pc = "pathos_rows" /\ row = NoRow /\ nread < maxrec
    /\ \E r \in HealthInput : row' = r
    /\ nread' = nread + 1
    /\ UNCHANGED <<pc, maxrec, wide, atEnd, water_map, water, stats_map, pathos,
                   death_map, deaths, todo, final_dataset, csv_out, fault,
                   diag, nqual, code, ncode>>

\* the body of the loop on the fetched row
HealthBody ==
    /\ pc = "pathos_rows" /\ row # NoRow
    /\ stats_map' = HealthRowEffect(stats_map, row)
    /\ row' = NoRow
    /\ UNCHANGED <<pc, maxrec, wide, nread, atEnd, water_map, water, pathos,
                   death_map, deaths, todo, final_dataset, csv_out, fault,
                   diag, nqual, code, ncode>>

\* the reader raises while fetching: diagnostic, then return
HealthReadFail ==
    /\ pc = "pathos_rows" /\ row = NoRow
    /\ fault' = [fault EXCEPT !.pathos = "read"]
    /\ diag' = diag + 1
    /\ pathos' = stats_map
    /\ pc' = AfterHealth
    /\ nread' = 0
    /\ UNCHANGED <<maxrec, wide, row, atEnd, water_map, water, stats_map,
                   death_map, deaths, todo, final_dataset, csv_out, nqual,
                   code, ncode>>

\* end of file: the loop ends and the function returns stats_map
HealthEOF ==
    /\ pc = "pathos_rows" /\ row = NoRow
    /\ pathos' = stats_map
    /\ pc' = AfterHealth
    /\ nread' = 0
    /\ UNCHANGED <<maxrec, wide, row, atEnd, water_map, water, stats_map,
                   death_map, deaths, todo, final_dataset, csv_out, fault,
                   diag, nqual, code, ncode>>

(***************************************************************************)
(* read_death_data                                                         *)
(***************************************************************************)
\* len(line) < 167, line 99
RecordWidth == 167
\* line[162:167], line 100
CodeOffset == 162

Pad(n) == [i \in 1..n |-> "X"]

\* The lines the file object may yield.  A line keeps its terminator; only
\* the last line of a file may lack one.  Each is CodeOffset filler
\* characters, then the text t.
DeathTails ==
    { <<"9", "7", "1", "0", "5", "\n">>,        \* overseas commune
      <<"9", "9", "1", "2", "3", "\n">>,        \* foreign country
      <<"0", "1", "0", "0", "4", "\n">>,
      <<"0", "1", "0", "0", "4", "X", "X", "\n">>,  \* a longer record
      <<"1", " ", " ", " ", " ", "\n">>,
      <<" ", " ", " ", " ", " ", "\n">>,        \* blank code field
      <<"0", "1", "0", "0", "4">>,              \* last line, no terminator
      <<"0", "1", "0", "0", "\n">>,             \* 166 characters, then "\n"
      <<"9", "7", "1", "0", "\n">>,
      <<"0", "1", "0", "0">>,                   \* 166 characters, last line
      <<"0", "1", "\n">> }

DeathRows ==
    { [kind |-> "line", line |-> Pad(CodeOffset) \o t] : t \in DeathTails }
    \cup { [kind |-> "line", line |-> <<"0", "1", "\n">>],
           [kind |-> "line", line |-> <<"\n">>] }

\* a few of them
DeathRowsFew ==
    { [kind |-> "line", line |-> Pad(CodeOffset) \o t] :
        t \in { <<"9", "7", "1", "0", "5", "\n">>,
                <<"0", "1", "0", "0", "4", "\n">> } }
    \cup { [kind |-> "line", line |-> <<"0", "1", "\n">>] }

DeathInput == IF wide THEN DeathRows ELSE DeathRowsFew

\* lines 100-103 without the two special prefixes
RawDept_two(line) ==
    Slice(Strip(Slice(line, CodeOffset, RecordWidth)), 0, 2)

\* lines 100-103: the raw department token of a line
RawDept(line) ==
    LET code_com == Strip(Slice(line, CodeOffset, RecordWidth))
    IN  IF StartsWith(code_com, <<"9", "7">>) THEN Slice(code_com, 0, 3)
        ELSE IF StartsWith(code_com, <<"9", "9">>) THEN <<"9", "9", "9">>
        ELSE Slice(code_com, 0, 2)

\* the test of line 99: TRUE when the line is skipped
DeathSkips(line) == Len(line) < RecordWidth

\* death_map[d] += 1 on a defaultdict(int)
Incr(m, d) ==
    IF d \in DOMAIN m THEN [m EXCEPT ![d] = @ + 1] ELSE (d :> 1) @@ m

\* the body of the for loop, lines 99-104
DeathRowEffect(m, line) ==
    IF DeathSkips(line) THEN m
    ELSE Incr(m, normalize_dept(RawDept(line)))

\* after read_death_data returns, main builds all_depts
AfterDeaths == "join_start"

\* open() succeeds
DeathOpen ==
    /\ pc = "deaths_open"
    /\ pc' = "deaths_rows"
    /\ UNCHANGED <<maxrec, wide, nread, row, atEnd, water_map, water, stats_map,
                   pathos, death_map, deaths, todo, final_dataset, csv_out,
                   fault, diag, nqual, code, ncode>>

\* open() raises: except: pass, then return death_map
DeathOpenFail ==
    /\ pc = "deaths_open"
    /\ fault' = [fault EXCEPT !.deaths = "open"]
    /\ deaths' = death_map
    /\ pc' = AfterDeaths
    /\ UNCHANGED <<maxrec, wide, nread, row, atEnd, water_map, water, stats_map,
                   pathos, death_map, todo, final_dataset, csv_out, diag,
                   nqual, code, ncode>>

\* the for loop obtains the next line of the file
DeathFetch ==
    /\ pc = "deaths_rows" /\ row = NoRow /\ nread < maxrec /\ ~atEnd
    /\ \E r \in DeathInput :
         /\ row' = r
         /\ atEnd' = (r.line[Len(r.line)] # "\n")
    /\ nread' = nread + 1
    /\ UNCHANGED <<pc, maxrec, wide, water_map, water, stats_map, pathos,
                   death_map, deaths, todo, final_dataset, csv_out, fault,
                   diag, nqual, code, ncode>>

\* the body of the loop on the fetched line
DeathBody ==
    /\ pc = "deaths_rows" /\ row # NoRow
    /\ death_map' = DeathRowEffect(death_map, row.line)
    /\ nqual' = IF DeathSkips(row.line) THEN nqual ELSE nqual + 1
    /\ row' = NoRow
    /\ UNCHANGED <<pc, maxrec, wide, nread, atEnd, water_map, water, stats_map,
                   pathos, deaths, todo, final_dataset, csv_out, fault,
                   diag, code, ncode>>

\* the file object raises while fetching (decoding error): except: pass
DeathReadFail ==
    /\ pc = "deaths_rows" /\ row = NoRow /\ ~atEnd
    /\ fault' = [fault EXCEPT !.deaths = "read"]
    /\ deaths' = death_map
    /\ pc' = AfterDeaths
    /\ nread' = 0
    /\ UNCHANGED <<maxrec, wide, row, atEnd, water_map, water, stats_map, pathos,
                   death_map, todo, final_dataset, csv_out, diag, nqual,
                   code, ncode>>

\* end of file: the loop ends and the function returns death_map
DeathEOF ==
    /\ pc = "deaths_rows" /\ row = NoRow
    /\ deaths' = death_map
    /\ pc' = AfterDeaths
    /\ nread' = 0
    /\ atEnd' = FALSE
    /\ UNCHANGED <<maxrec, wide, row, water_map, water, stats_map, pathos,
                   death_map, todo, final_dataset, csv_out, fault, diag,
                   nqual, code, ncode>>

(***************************************************************************)
(* main: the join of the three results and the export                      *)
(***************************************************************************)
\* sorted(S) for a set of str
RECURSIVE Sorted(_)
Sorted(S) ==
    IF S = {} THEN <<>>
    ELSE LET m == CHOOSE x \in S : \A y \in S \ {x} : StrLess(x, y)
         IN  <<m>> \o Sorted(S \ {m})

\* set(water.keys()) | set(pathos.keys()) | set(deaths.keys())
AllDepts(w, p, dm) == DOMAIN w \cup DOMAIN p \cup DOMAIN dm

\* the percentage cut after four decimals instead of rounded
Pourcentage_trunc(x, pop) ==
    IF pop > 0 THEN (x * 1000000) \div pop ELSE 0

\* (x / pop * 100) if pop > 0 else 0, then round(., 4): in units of 10^-4
Pourcentage(x, pop) == IF pop > 0 THEN RoundDiv(x * 1000000, pop) ELSE 0

\* round(water.get(d, 0.0), 2): in units of 10^-2
ConformiteEau(w, d) ==
    IF d \in DOMAIN w THEN RoundDiv(w[d][1] * 100, w[d][2]) ELSE 0

\* deaths.get(d, 0)
NombreDeces(dm, d) == IF d \in DOMAIN dm THEN dm[d] ELSE 0

\* pathos.get(d, {"pop": 0, "cancer": 0, "rein": 0, "foie": 0})
StatsOf(p, d) == IF d \in DOMAIN p THEN p[d] ELSE ZeroStats

\* DeptSummary(...).model_dump(), lines 126-146
Summary(d, w, p, dm) ==
    LET s == StatsOf(p, d)
        pop == s.pop
    IN  [ departement |-> d,
          conformite_eau_moyenne |-> ConformiteEau(w, d),
          nombre_deces |-> NombreDeces(dm, d),
          population_totale |-> pop,
          nb_cancers |-> s.cancer,
          nb_insuffisance_renale |-> s.rein,
          nb_foie_pancreas |-> s.foie,
          pourcentage_cancer |-> Pourcentage(s.cancer, pop),
          pourcentage_insuffisance_renale |-> Pourcentage(s.rein, pop),
          pourcentage_foie_pancreas |-> Pourcentage(s.foie, pop) ]

\* the loop without its test of line 124
SkipsDept_never(d) == FALSE

\* if d == "INCONNU": continue
SkipsDept(d) == d = INCONNU

\* lines 120-123: all_depts, final_dataset = [], sorted(all_depts)
JoinStart ==
    /\ pc = "join_start"
    /\ todo' = Sorted(AllDepts(water, pathos, deaths))
    /\ final_dataset' = <<>>
    /\ pc' = "join"
    /\ UNCHANGED <<maxrec, wide, nread, row, atEnd, water_map, water, stats_map,
                   pathos, death_map, deaths, csv_out, fault, diag, nqual,
                   code, ncode>>

\* one iteration of the for loop, lines 123-147
JoinStep ==
    /\ pc = "join" /\ todo # <<>>
    /\ LET d == Head(todo) IN
         final_dataset' =
           IF SkipsDept(d) THEN final_dataset
           ELSE Append(final_dataset, Summary(d, water, pathos, deaths))
    /\ todo' = Tail(todo)
    /\ UNCHANGED <<pc, maxrec, wide, nread, row, atEnd, water_map, water,
                   stats_map, pathos, death_map, deaths, csv_out, fault,
                   diag, nqual, code, ncode>>

\* the loop is over
JoinEnd ==
    /\ pc = "join" /\ todo = <<>>
    /\ pc' = "export"
    /\ UNCHANGED <<maxrec, wide, nread, row, atEnd, water_map, water, stats_map,
                   pathos, death_map, deaths, todo, final_dataset, csv_out,
                   fault, diag, nqual, code, ncode>>

\* lines 155-164: the table and the schema are written
Export ==
    /\ pc = "export"
    /\ csv_out' = final_dataset
    /\ pc' = "done"
    /\ UNCHANGED <<maxrec, wide, nread, row, atEnd, water_map, water, stats_map,
                   pathos, death_map, deaths, todo, final_dataset, fault,
                   diag, nqual, code, ncode>>

\* open() or a write raises: nothing catches it, the run ends on the error
ExportFail ==
    /\ pc = "export"
    /\ pc' = "crashed"
    /\ UNCHANGED <<maxrec, wide, nread, row, atEnd, water_map, water, stats_map,
                   pathos, death_map, deaths, todo, final_dataset, csv_out,
                   fault, diag, nqual, code, ncode>>

(***************************************************************************)
(* read_water_file alone, on every file of at most MaxRows rows.           *)
(***************************************************************************)
InitWater == Start("water_open", MaxRows, NoFault, TRUE)

NextWater ==
    \/ WaterOpen
    \/ WaterOpenFail
    \/ WaterFetch
    \/ WaterBody
    \/ WaterReadFail
    \/ WaterEOF

SpecWater == InitWater /\ [][NextWater]_vars

(***************************************************************************)
(* read_effectifs_csv, then the join and the export, on every health file  *)
(* of at most MaxRows rows: main when the two other files cannot be        *)
(* opened.                                                                 *)
(***************************************************************************)
InitHealth ==
    Start("pathos_open", MaxRows, [NoFault EXCEPT !.water = "open"], TRUE)

NextHealth ==
    \/ HealthOpen
    \/ HealthOpenFail
    \/ HealthFetch
    \/ HealthBody
    \/ HealthReadFail
    \/ HealthEOF
    \/ DeathOpenFail
    \/ JoinStart
    \/ JoinStep
    \/ JoinEnd
    \/ Export
    \/ ExportFail

SpecHealth == InitHealth /\ [][NextHealth]_vars

(***************************************************************************)
(* read_death_data alone, on every file of at most MaxRows lines.          *)
(***************************************************************************)
InitDeaths == Start("deaths_open", MaxRows, NoFault, TRUE)

NextDeaths ==
    \/ DeathOpen
    \/ DeathOpenFail
    \/ DeathFetch
    \/ DeathBody
    \/ DeathReadFail
    \/ DeathEOF

SpecDeaths == InitDeaths /\ [][NextDeaths]_vars

(***************************************************************************)
(* main: the three readers in sequence, the join and the export, on files  *)
(* of at most PipeRows records drawn from the few sets.                   *)
(***************************************************************************)
Init == Start("water_open", PipeRows, NoFault, FALSE)

Next ==
    \/ WaterOpen
    \/ WaterOpenFail
    \/ WaterFetch
    \/ WaterBody
    \/ WaterReadFail
    \/ WaterEOF
    \/ HealthOpen
    \/ HealthOpenFail
    \/ HealthFetch
    \/ HealthBody
    \/ HealthReadFail
    \/ HealthEOF
    \/ DeathOpen
    \/ DeathOpenFail
    \/ DeathFetch
    \/ DeathBody
    \/ DeathReadFail
    \/ DeathEOF
    \/ JoinStart
    \/ JoinStep
    \/ JoinEnd
    \/ Export
    \/ ExportFail

Spec == Init /\ [][Next]_vars

(***************************************************************************)
(* The join and the export on every triple of reader results over          *)
(* JoinCodes.                                                              *)
(***************************************************************************)
MaxPop == 3

\* the dicts with keys in K and values in V
Maps(K, V) == UNION { [D -> V] : D \in SUBSET K }

JoinCodes == { <<"0", "1">>, <<"9", "7", "1">>, INCONNU }
JoinStats == [pop : -1..MaxPop, cancer : {0, 2}, rein : {1}, foie : {5}]

InitJoin ==
    /\ pc = "join_start"
    /\ maxrec = 0
    /\ wide = FALSE
    /\ nread = 0
    /\ row = NoRow
    /\ atEnd = FALSE
    /\ water_map = EmptyMap
    /\ water \in Maps(JoinCodes, {<<200, 3>>})
    /\ stats_map = EmptyMap
    /\ pathos \in Maps(JoinCodes, JoinStats)
    /\ death_map = EmptyMap
    /\ deaths \in Maps(JoinCodes, {3})
    /\ todo = <<>>
    /\ final_dataset = <<>>
    /\ csv_out = None
    /\ fault = NoFault
    /\ diag = 0
    /\ nqual = 0
    /\ code = None
    /\ ncode = <<>>

NextJoin ==
    \/ JoinStart
    \/ JoinStep
    \/ JoinEnd
    \/ Export
    \/ ExportFail

SpecJoin == InitJoin /\ [][NextJoin]_vars

(***************************************************************************)
(* normalize_dept on every raw code of RawCodes, applied twice.            *)
(***************************************************************************)
NormChars == {" ", "\"", "0", "5", "7", "9"}

RawCodes ==
    UNION { [1..k -> NormChars] : k \in 0..MaxLen }
    \cup { <<"t", "o", "t", "a", "l">>, <<"T", "O", "T", "A", "L">>,
           <<" ", "T", "o", "t", "a", "l", "\n">>, INCONNU,
           <<"2", "A">>, <<"\"", "0", "1", "2", "\"">>, None }

InitNorm ==
    /\ pc = "norm"
    /\ code \in RawCodes
    /\ ncode = <<>>
    /\ maxrec = 0
    /\ wide = FALSE
    /\ nread = 0
    /\ row = NoRow
    /\ atEnd = FALSE
    /\ water_map = EmptyMap
    /\ water = EmptyMap
    /\ stats_map = EmptyMap
    /\ pathos = EmptyMap
    /\ death_map = EmptyMap
    /\ deaths = EmptyMap
    /\ todo = <<>>
    /\ final_dataset = <<>>
    /\ csv_out = None
    /\ fault = NoFault
    /\ diag = 0
    /\ nqual = 0

\* normalize_dept(code)
NormCall ==
    /\ pc = "norm" /\ ncode = <<>>
    /\ ncode' = <<normalize_dept(code)>>
    /\ UNCHANGED <<pc, maxrec, wide, nread, row, atEnd, water_map, water,
                   stats_map, pathos, death_map, deaths, todo, final_dataset,
                   csv_out, fault, diag, nqual, code>>

\* normalize_dept applied to its own result
NormAgain ==
    /\ pc = "norm" /\ Len(ncode) = 1
    /\ ncode' = Append(ncode, normalize_dept(ncode[1]))
    /\ UNCHANGED <<pc, maxrec, wide, nread, row, atEnd, water_map, water,
                   stats_map, pathos, death_map, deaths, todo, final_dataset,
                   csv_out, fault, diag, nqual, code>>

NextNorm ==
    \/ NormCall
    \/ NormAgain

SpecNorm == InitNorm /\ [][NextNorm]_vars

(***************************************************************************)
(* The claims.                                                             *)
(***************************************************************************)
\* a is before b in lexicographic order of code points
LexBefore(a, b) ==
    \E k \in 1..Len(b) :
        /\ \A i \in 1..(k - 1) : i <= Len(a) /\ a[i] = b[i]
        /\ \/ k = Len(a) + 1
           \/ k <= Len(a) /\ Ord(a[k]) < Ord(b[k])

RECURSIVE SumOver(_, _)
SumOver(m, S) ==
    IF S = {} THEN 0
    ELSE LET d == CHOOSE x \in S : TRUE IN m[d] + SumOver(m, S \ {d})

\* the first n characters of s
First(s, n) == SubSeq(s, 1, IF n < Len(s) THEN n ELSE Len(s))

Pourcentages(r) ==
    { r.pourcentage_cancer, r.pourcentage_insuffisance_renale,
      r.pourcentage_foie_pancreas }

\* C1: normalize_dept is idempotent: applied to its own result it returns
\* that result.
C1_Idempotent == Len(ncode) = 2 => ncode[2] = ncode[1]

\* C2: once the join loop is over, final_dataset holds exactly one summary
\* per code of keys(water) | keys(pathos) | keys(deaths) other than
\* "INCONNU", in strictly ascending lexicographic order; its length is the
\* number of distinct codes, minus 1 if "INCONNU" is one of them; and
\* "INCONNU" is in it at no time.
C2_JoinOutput ==
    LET U == DOMAIN water \cup DOMAIN pathos \cup DOMAIN deaths
        K == U \ {INCONNU}
        n == Len(final_dataset)
    IN  /\ \A i \in 1..n : final_dataset[i].departement # INCONNU
        /\ pc \in {"export", "done", "crashed"} =>
             /\ {final_dataset[i].departement : i \in 1..n} = K
             /\ n = Cardinality(K)
             /\ n = Cardinality(U) - (IF INCONNU \in U THEN 1 ELSE 0)
             /\ \A i, j \in 1..n :
                  i < j => LexBefore(final_dataset[i].departement,
                                     final_dataset[j].departement)

C2_Witness ==
    /\ pc = "done"
    /\ csv_out = final_dataset
    /\ INCONNU \in DOMAIN deaths
    /\ <<"9", "7", "1">> \in DOMAIN water
    /\ <<"0", "1">> \in DOMAIN pathos
    /\ Len(final_dataset) = 2

\* C3: in every summary the three percentages are never negative, and are
\* at most 100 (1000000 units of 10^-4) when population_totale > 0.
C3_PercentRange ==
    \A i \in 1..Len(final_dataset) :
        \A x \in Pourcentages(final_dataset[i]) :
            /\ x >= 0
            /\ final_dataset[i].population_totale > 0 => x <= 1000000

\* C4: after every row processed by read_effectifs_csv each accumulator of
\* each department is non-negative and not below its value before the row,
\* that value being 0 for a department not referenced before.
C4_Step ==
    (pc = "pathos_rows" /\ row # NoRow /\ row' = NoRow) =>
        \A d \in DOMAIN stats_map' :
            \A k \in {"pop", "cancer", "rein", "foie"} :
                /\ stats_map'[d][k] >= 0
                /\ stats_map'[d][k] >=
                     (IF d \in DOMAIN stats_map THEN stats_map[d][k] ELSE 0)

C4_Accumulators == [][C4_Step]_vars

\* the characters of a line without its terminator
RecordOf(line) ==
    IF line # <<>> /\ line[Len(line)] = "\n"
    THEN SubSeq(line, 1, Len(line) - 1) ELSE line

\* C5: a line whose record has fewer than 167 characters is skipped: the
\* body of the loop leaves death_map as it was.
C5_Step ==
    ( /\ pc = "deaths_rows" /\ row # NoRow /\ row' = NoRow
      /\ Len(RecordOf(row.line)) < 167 )
    => death_map' = death_map

C5_ShortSkipped == [][C5_Step]_vars

\* m is the mapping of each department of samples to the mean of its samples
IsMeansOf(m, samples) ==
    /\ DOMAIN m = DOMAIN samples
    /\ \A d \in DOMAIN samples :
         LET t == FracSum(samples[d])
         IN  /\ m[d][2] > 0
             /\ m[d][1] * t[2] * Len(samples[d]) = t[1] * m[d][2]

\* C6: no reader raises to main: a step taken inside a reader never ends the
\* run, only the export can; when open fails the reader returns an empty
\* mapping and when reading fails it returns what it had accumulated (the
\* water reader the means of its samples, the health reader after one
\* diagnostic), and main goes on to its next call.
C6_Step ==
    /\ pc' = "crashed" => pc = "export"
    /\ fault'.water # fault.water =>
         /\ pc' = "pathos_open"
         /\ IsMeansOf(water', water_map)
         /\ fault'.water = "open" => water' = EmptyMap
    /\ fault'.pathos # fault.pathos =>
         /\ pc' = "deaths_open"
         /\ pathos' = stats_map
         /\ diag' = diag + 1
         /\ fault'.pathos = "open" => pathos' = EmptyMap
    /\ fault'.deaths # fault.deaths =>
         /\ pc' = "join_start"
         /\ deaths' = death_map
         /\ fault'.deaths = "open" => deaths' = EmptyMap

C6_ReadersNeverRaise == [][C6_Step]_vars

C6_Witness ==
    /\ pc = "done"
    /\ fault = [water |-> "read", pathos |-> "read", deaths |-> "open"]
    /\ water # EmptyMap
    /\ pathos # EmptyMap
    /\ deaths = EmptyMap
    /\ Len(csv_out) = 2

\* C7: the body of the water loop, for every four flags: the flags that are
\* 'S' or absent are left out; when none remains water_map is unchanged;
\* otherwise one sample equal to (considered flags equal to 'C') /
\* (considered flags) x 100 is appended to the row's normalized department
\* and nothing else changes.
C7_Step ==
    (pc = "water_rows" /\ row # NoRow /\ row' = NoRow) =>
        LET cols == << row.plvconformitebacterio, row.plvconformitechimique,
                       row.plvconformitereferencebact,
                       row.plvconformitereferencechim >>
            K == {i \in 1..4 : cols[i] # FlagS /\ cols[i] # None}
            nC == Cardinality({i \in K : cols[i] = FlagC})
            d == normalize_dept(row.cddept)
            old == IF d \in DOMAIN water_map THEN water_map[d] ELSE <<>>
        IN  IF K = {} THEN water_map' = water_map
            ELSE /\ DOMAIN water_map' = DOMAIN water_map \cup {d}
                 /\ \A e \in DOMAIN water_map \ {d} :
                      water_map'[e] = water_map[e]
                 /\ Len(water_map'[d]) = Len(old) + 1
                 /\ SubSeq(water_map'[d], 1, Len(old)) = old
                 /\ LET v == water_map'[d][Len(old) + 1]
                    IN  /\ v[2] > 0
                        /\ v[1] * Cardinality(K) = nC * 100 * v[2]

C8_Step ==
    (pc = "pathos_rows" /\ row # NoRow /\ row' = NoRow) =>
        LET keys == <<"pop", "cancer", "rein", "foie">>
            pats == <<PatPop, PatCancer, PatRein, PatFoie>>
            p2 == Str(row.patho_niv1)
            hits == {i \in 1..4 : Contains(p2, pats[i])}
            kept == /\ Contains(Str(row.annee), Pat2023)
                    /\ Contains(Lower(Str(row.libelle_sexe)), PatTousSexes)
                    /\ Contains(Lower(Str(row.libelle_classe_age)), PatTousAges)
                    /\ ~Contains(Lower(Str(row.dept)), PatTousDepts)
            d == normalize_dept(Str(row.dept))
            old == IF d \in DOMAIN stats_map THEN stats_map[d] ELSE ZeroStats
        IN  IF ~kept \/ hits = {} THEN stats_map' = stats_map
            ELSE LET first == CHOOSE i \in hits : \A j \in hits : i <= j
                 IN  /\ DOMAIN stats_map' = DOMAIN stats_map \cup {d}
                     /\ \A e \in DOMAIN stats_map \ {d} :
                          stats_map'[e] = stats_map[e]
                     /\ \A i \in 1..4 :
                          stats_map'[d][keys[i]] =
                            old[keys[i]]
                              + (IF i = first THEN ParseCount(row.Ntop) ELSE 0)

C8_HealthRow == [][C8_Step]_vars

\* both rows whose category holds two patterns were read for one department
C8_Witness ==
    /\ pc = "pathos_rows"
    /\ row = NoRow
    /\ nread = 2
    /\ stats_map =
         (<<"0", "1">> :> [pop |-> 7, cancer |-> 0, rein |-> 7, foie |-> 0])

\* pct is count / pop x 100 rounded to the nearest multiple of 10^-4
IsRounded4(pct, count, pop) ==
    2 * Abs(pct * pop - count * 1000000) <= pop

\* C9: in every summary: a department absent from the health mapping has
\* population_totale 0; a population of 0 gives three percentages of 0; a
\* population > 0 gives count / population x 100 rounded to 4 decimals; a
\* department absent from the water mapping has conformite_eau_moyenne 0.0
\* and one absent from the mortality mapping has nombre_deces 0.
C9_JoinValues ==
    \A i \in 1..Len(final_dataset) :
        LET r == final_dataset[i]
            d == r.departement
            pop == r.population_totale
        IN  /\ d \notin DOMAIN pathos =>
                 /\ pop = 0
                 /\ r.nb_cancers = 0
                 /\ r.nb_insuffisance_renale = 0
                 /\ r.nb_foie_pancreas = 0
            /\ d \in DOMAIN pathos =>
                 /\ pop = pathos[d].pop
                 /\ r.nb_cancers = pathos[d].cancer
                 /\ r.nb_insuffisance_renale = pathos[d].rein
                 /\ r.nb_foie_pancreas = pathos[d].foie
            /\ pop = 0 => Pourcentages(r) = {0}
            /\ pop > 0 =>
                 /\ IsRounded4(r.pourcentage_cancer, r.nb_cancers, pop)
                 /\ IsRounded4(r.pourcentage_insuffisance_renale,
                               r.nb_insuffisance_renale, pop)
                 /\ IsRounded4(r.pourcentage_foie_pancreas,
                               r.nb_foie_pancreas, pop)
            /\ d \notin DOMAIN water => r.conformite_eau_moyenne = 0
            /\ d \notin DOMAIN deaths => r.nombre_deces = 0

\* a department known to the mortality mapping alone, and one whose cancer
\* percentage is 2/3 x 100
C9_Witness ==
    /\ pc = "done"
    /\ \E i, j \in 1..Len(final_dataset) :
         /\ final_dataset[i].departement \in DOMAIN deaths
         /\ final_dataset[i].departement \notin DOMAIN pathos \cup DOMAIN water
         /\ final_dataset[i].nombre_deces = 3
         /\ final_dataset[j].population_totale = 3
         /\ final_dataset[j].pourcentage_cancer = 666667

\* C10: the body of the mortality loop: a line that passes the length test
\* adds exactly 1 to exactly one counter, that of the normalized token of
\* its code field (3 characters when the field starts with "97", "999" when
\* it starts with "99", else 2 characters); a skipped line changes nothing;
\* no counter decreases; and the counters sum to the number of lines that
\* passed the test.
C10_Step ==
    (pc = "deaths_rows" /\ row # NoRow /\ row' = NoRow) =>
        LET line == row.line
            qualifies == Len(line) >= 167
            field == Strip(SubSeq(line, 163, 167))
            token == IF First(field, 2) = <<"9", "7">> THEN First(field, 3)
                     ELSE IF First(field, 2) = <<"9", "9">> THEN <<"9", "9", "9">>
                     ELSE First(field, 2)
            key == normalize_dept(token)
        IN  /\ nqual' = nqual + (IF qualifies THEN 1 ELSE 0)
            /\ SumOver(death_map', DOMAIN death_map') = nqual'
            /\ \A d \in DOMAIN death_map :
                 d \in DOMAIN death_map' /\ death_map'[d] >= death_map[d]
            /\ IF qualifies
               THEN /\ DOMAIN death_map' = DOMAIN death_map \cup {key}
                    /\ death_map'[key] =
                         (IF key \in DOMAIN death_map THEN death_map[key] ELSE 0) + 1
                    /\ \A e \in DOMAIN death_map \ {key} :
                         death_map'[e] = death_map[e]
               ELSE death_map' = death_map

C10_DeathCount == [][C10_Step]_vars

\* an overseas line and a foreign line were counted
C10_Witness ==
    /\ pc = "deaths_rows"
    /\ row = NoRow
    /\ nqual = 2
    /\ death_map = (<<"9", "7", "1">> :> 1) @@ (<<"9", "9", "9">> :> 1)

=============================================================================
